---------------------------- MODULE Spec2Model ----------------------------
(***************************************************************************)
(* AudioSDRpreProcessor (src/src/AudioSDRpreProcessor.cpp): the I/Q input  *)
(* conditioner of the AudioSDR receiver.  One update() per audio block     *)
(* tick: receive the block pair, single-sample delay compensation, image   *)
(* line detection with its failure/success counters, optional I/Q swap,    *)
(* transmit and release.  The public functions start, stop and set the     *)
(* correction and the swap.                                                *)
(*                                                                         *)
(* Blocks are functions over 0..n_block-1 (the data[] array of an          *)
(* audio_block_t); NULL is the block pointer receiveWritable returns when  *)
(* no block is queued.  The class declaration (AudioSDRpreProcessor.h) is  *)
(* not part of the sources: the member initialisers and the detector       *)
(* thresholds it holds are parameters of the model.                        *)
(***************************************************************************)
EXTENDS Integers, Sequences, FiniteSets, TLC

\* ------------------------------------------------------------------------
\* Sizes and thresholds

\* samples per block (AUDIO_BLOCK_SAMPLES, 128 on the target)
n_block == 4

\* length of the transform, "const int16_t n_FFT = 128": the block length
n_FFT == n_block

\* "const int16_t min = 5": spectral lines ignored around dc, in proportion
\* to the shortened block
min == 1

\* failures in a row that are tolerated before the correction is changed
maxFailureCount == 2

\* evaluated blocks after which the current correction is accepted
maxSuccessCount == 3

\* the strongest line must exceed this multiple of the average line power
spectralAvgMultiplier == 1

\* smallest acceptable power ratio between the strongest line and its image
minImbalanceRatio == 2

\* line powers the transform can deliver (the unit is arbitrary)
Powers == {0, 1}

NULL == [i \in {} |-> 0]

Index == 0 .. (n_block - 1)

ZeroBlock == [i \in Index |-> 0]

\* a block of pairwise different samples; the Q samples are negative so
\* that a sample is recognised by channel and by position
RampI == [i \in Index |-> i + 1]

RampQ == [i \in Index |-> 0 - (i + 1)]

\* what receiveWritable(0) and receiveWritable(1) can return
InputsI == {NULL, ZeroBlock, RampI}

InputsQ == {NULL, ZeroBlock, RampQ}

Corrections == {-1, 0, 1}

VARIABLES
    I2Scorrection,   \* -1: delay Q, 0: none, 1: delay I
    savedSample,     \* the sample carried over to the next block
    autoDetectFlag,  \* automatic detection is active
    failureCount,
    successCount,
    IQswap,
    inI, inQ,        \* what receiveWritable returned in the last update()
    txI, txQ,        \* the blocks the last update() transmitted on 0 and 1
    calls,           \* release/transmit calls of the last update(), in order
    verdict,         \* what the detector said in the last update()
    op,              \* the member function called last
    ctl,             \* the last call of start, stop or set, with its argument
    prev,            \* the last update() that had both blocks: the correction
                     \* it started with and the last incoming I and Q sample
    badRun,          \* unacceptable verdicts in a row, counted in rounds of
                     \* maxFailureCount + 1
    okRun,           \* acceptable verdicts in a row
    sinceStart,      \* verdicts since detection was started
    detI, detQ,      \* the blocks the detector read in the last update()
                     \* (NULL: it did not run)
    line,            \* << maxLine, index of its image >> of the last update()
                     \* (empty: the detector did not run)
    noswap           \* I2Scorrection, savedSample, autoDetectFlag and the
                     \* counters of the same run (same blocks, same calls of
                     \* start, stop and set) in which IQswap is never set

vars == << I2Scorrection, savedSample, autoDetectFlag, failureCount,
           successCount, IQswap, inI, inQ, txI, txQ, calls, verdict, op,
           ctl, prev, badRun, okRun, sinceStart, detI, detQ, line,
           noswap >>

\* ------------------------------------------------------------------------
\* update(): delay compensation, lines 71-86

\* data[i] = data[i - 1] for i = n_block - 1 down to 1; data[0] is kept
ShiftUp(blk) ==
    [i \in Index |-> IF i > 0 THEN blk[i - 1] ELSE blk[0]]

\* faulty variant: I[0] is filled after the carry was overwritten, with the
\* last sample of the same block
DelayCompensate_LateFill(corr, bI, bQ, saved) ==
    IF corr = 1
    THEN [I |-> [ShiftUp(bI) EXCEPT ![0] = bI[n_block - 1]],
          Q |-> bQ,
          saved |-> bI[n_block - 1]]
    ELSE IF corr = -1
    THEN [I |-> [bI EXCEPT ![0] = bQ[n_block - 1]],
          Q |-> ShiftUp(bQ),
          saved |-> bQ[n_block - 1]]
    ELSE [I |-> bI, Q |-> bQ, saved |-> saved]

\* faulty variant: the last I sample is saved without a correction too
DelayCompensate_AlwaysSaves(corr, bI, bQ, saved) ==
    IF corr = 1
    THEN [I |-> [ShiftUp(bI) EXCEPT ![0] = saved],
          Q |-> bQ,
          saved |-> bI[n_block - 1]]
    ELSE IF corr = -1
    THEN [I |-> [bI EXCEPT ![0] = saved],
          Q |-> ShiftUp(bQ),
          saved |-> bQ[n_block - 1]]
    ELSE [I |-> bI, Q |-> bQ, saved |-> bI[n_block - 1]]

DelayCompensate(corr, bI, bQ, saved) ==
    IF corr = 1
    THEN [I |-> [ShiftUp(bI) EXCEPT ![0] = saved],
          Q |-> bQ,
          saved |-> bI[n_block - 1]]
    ELSE IF corr = -1
    THEN [I |-> [bI EXCEPT ![0] = saved],
          Q |-> ShiftUp(bQ),
          saved |-> bQ[n_block - 1]]
    ELSE [I |-> bI, Q |-> bQ, saved |-> saved]

\* ------------------------------------------------------------------------
\* update(): detection of the single-sample delay, lines 97-154

\* buffer[] after arm_cfft_f32 and arm_cmplx_mag_squared_f32 (lines 103-111):
\* elements 0..n_FFT-1 hold the power spectrum, element n_FFT is transform
\* output that the magnitude step left behind.  The transform is a library
\* primitive: all-zero blocks give an all-zero buffer, a single nonzero
\* sample pair gives the same nonzero power in every line, any other block
\* pair gives some spectrum with at least one line of nonzero power.
Buffers == [0 .. n_FFT -> Powers]

\* all-zero blocks
ZeroSpectra == {[i \in 0 .. n_FFT |-> 0]}

\* one nonzero sample pair
FlatSpectra ==
    {b \in Buffers : b[0] # 0 /\ \A i \in 0 .. (n_FFT - 1) : b[i] = b[0]}

\* any other block pair
ToneSpectra == {b \in Buffers : \E i \in 0 .. (n_FFT - 1) : b[i] # 0}

Spectra(bI, bQ) ==
    LET nonzero == {i \in Index : bI[i] # 0 \/ bQ[i] # 0}
    IN  IF nonzero = {} THEN ZeroSpectra
        ELSE IF Cardinality(nonzero) = 1 THEN FlatSpectra
        ELSE ToneSpectra

\* the loop of lines 116-125, from index i on
RECURSIVE Scan(_, _, _)
Scan(buffer, i, acc) ==
    IF i < n_FFT - min
    THEN Scan(buffer, i + 1,
              [average_power |-> acc.average_power + buffer[i],
               maxLine |-> IF buffer[i] > acc.maximum_power
                           THEN i ELSE acc.maxLine,
               maximum_power |-> IF buffer[i] > acc.maximum_power
                                 THEN buffer[i] ELSE acc.maximum_power])
    ELSE acc

\* faulty variant: the test of line 131 with >= for >
Detect_WeakPasses(buffer) ==
    LET s == Scan(buffer, min,
                  [average_power |-> 0, maxLine |-> 0, maximum_power |-> 0])
        image == buffer[n_FFT - s.maxLine]
    IN  [maxLine |-> s.maxLine,
         imageLine |-> n_FFT - s.maxLine,
         strong |-> s.maximum_power * (n_FFT - 2 * min)
                        >= spectralAvgMultiplier * s.average_power,
         low |-> s.maximum_power < minImbalanceRatio * image]

\* lines 99-134.  The float quotients are compared by cross multiplication
\* (all powers are >= 0; a zero image power makes the ratio infinite, which
\* is not below the minimum): strong is the test of line 131, low the test
\* of line 134.
Detect(buffer) ==
    LET s == Scan(buffer, min,
                  [average_power |-> 0, maxLine |-> 0, maximum_power |-> 0])
        image == buffer[n_FFT - s.maxLine]
    IN  [maxLine |-> s.maxLine,
         imageLine |-> n_FFT - s.maxLine,
         strong |-> s.maximum_power * (n_FFT - 2 * min)
                        > spectralAvgMultiplier * s.average_power,
         low |-> s.maximum_power < minImbalanceRatio * image]

\* lines 103-134 on every buffer of a kind: update() depends on the buffer
\* only through what Detect finds in it
Detections ==
    [S \in {ZeroSpectra, FlatSpectra, ToneSpectra} |-> {Detect(b) : b \in S}]

\* faulty variant: the test of line 139 with >= for >
StateMachine_EarlyAdvance(corr, fc, sc, det) ==
    IF det.strong
    THEN LET fc1 == IF det.low THEN fc + 1 ELSE 0
         IN  IF fc1 >= maxFailureCount
             THEN [corr |-> IF corr + 1 > 1 THEN -1 ELSE corr + 1,
                   fc |-> 0,
                   sc |-> 0 + 1]
             ELSE [corr |-> corr, fc |-> fc1, sc |-> sc + 1]
    ELSE [corr |-> corr, fc |-> fc, sc |-> sc]

\* faulty variant: lines 142-143 are missing
StateMachine_NoWrap(corr, fc, sc, det) ==
    IF det.strong
    THEN LET fc1 == IF det.low THEN fc + 1 ELSE 0
         IN  IF fc1 > maxFailureCount
             THEN [corr |-> corr + 1,
                   fc |-> 0,
                   sc |-> 0 + 1]
             ELSE [corr |-> corr, fc |-> fc1, sc |-> sc + 1]
    ELSE [corr |-> corr, fc |-> fc, sc |-> sc]

\* faulty variant: line 148 inside the block of line 139
StateMachine_CountsAdvances(corr, fc, sc, det) ==
    IF det.strong
    THEN LET fc1 == IF det.low THEN fc + 1 ELSE 0
         IN  IF fc1 > maxFailureCount
             THEN [corr |-> IF corr + 1 > 1 THEN -1 ELSE corr + 1,
                   fc |-> 0,
                   sc |-> 0 + 1]
             ELSE [corr |-> corr, fc |-> fc1, sc |-> sc]
    ELSE [corr |-> corr, fc |-> fc, sc |-> sc]

\* lines 131-149: the counters and the correction after one evaluation
StateMachine(corr, fc, sc, det) ==
    IF det.strong
    THEN LET fc1 == IF det.low THEN fc + 1 ELSE 0
         IN  IF fc1 > maxFailureCount
             THEN [corr |-> IF corr + 1 > 1 THEN -1 ELSE corr + 1,
                   fc |-> 0,
                   sc |-> 0 + 1]
             ELSE [corr |-> corr, fc |-> fc1, sc |-> sc + 1]
    ELSE [corr |-> corr, fc |-> fc, sc |-> sc]

\* faulty variant: the test of line 150 one evaluation late
StillDetecting_Late(sc) == ~(sc > maxSuccessCount + 1)

\* lines 150-153: accept the current correction after enough evaluations
StillDetecting(sc) == ~(sc > maxSuccessCount)

Verdict(det) ==
    IF ~det.strong THEN "none" ELSE IF det.low THEN "bad" ELSE "ok"

\* ------------------------------------------------------------------------
\* update(): swap, lines 159-167

\* faulty variant: the exchange without the temporary of line 163
SwapIQ_NoTemp(swap, bI, bQ) ==
    IF swap
    THEN [I |-> [i \in Index |-> bQ[i]], Q |-> [i \in Index |-> bQ[i]]]
    ELSE [I |-> bI, Q |-> bQ]

SwapIQ(swap, bI, bQ) ==
    IF swap
    THEN [I |-> [i \in Index |-> bQ[i]], Q |-> [i \in Index |-> bI[i]]]
    ELSE [I |-> bI, Q |-> bQ]

\* faulty variant: the swap of lines 159-167 ahead of line 71
Condition_SwapFirst(swap, corr, bI, bQ, saved) ==
    LET s == SwapIQ(swap, bI, bQ)
        d == DelayCompensate(corr, s.I, s.Q, saved)
    IN  [detI |-> d.I, detQ |-> d.Q, saved |-> d.saved,
         I |-> d.I, Q |-> d.Q]

\* what update() does to the samples, in the order of the code: the delay
\* compensation (lines 71-86), whose blocks the detector reads (lines
\* 103-108), then the swap (lines 159-167), whose blocks are transmitted
Condition(swap, corr, bI, bQ, saved) ==
    LET d == DelayCompensate(corr, bI, bQ, saved)
        s == SwapIQ(swap, d.I, d.Q)
    IN  [detI |-> d.I, detQ |-> d.Q, saved |-> d.saved,
         I |-> s.I, Q |-> s.Q]

\* ------------------------------------------------------------------------
\* update(): the calls into the audio framework

\* faulty variant: the early return forgets blockI
ReleaseOnly_LeakI(bI, bQ) ==
    IF bQ # NULL THEN << <<"release", "Q">> >> ELSE << >>

\* lines 54-61: a block is missing
ReleaseOnly(bI, bQ) ==
    (IF bI # NULL THEN << <<"release", "I">> >> ELSE << >>)
        \o (IF bQ # NULL THEN << <<"release", "Q">> >> ELSE << >>)

\* lines 169-172
TransmitAndRelease ==
    << <<"transmit", "I">>, <<"transmit", "Q">>,
       <<"release", "Q">>, <<"release", "I">> >>

\* ------------------------------------------------------------------------
\* update(), lines 49-173

\* the run of unacceptable verdicts after one more verdict
RunAfter(run, v) ==
    IF v = "bad" THEN (run + 1) % (maxFailureCount + 1)
    ELSE IF v = "ok" THEN 0
    ELSE run

\* the run of acceptable verdicts after one more verdict (the count stops
\* above every value the tests of lines 139 and 150 let through)
OkAfter(run, v) ==
    IF v = "ok" THEN (IF run > maxSuccessCount THEN run ELSE run + 1)
    ELSE IF v = "bad" THEN 0
    ELSE run

\* the number of verdicts after one more verdict (the count stops at
\* maxSuccessCount + 2)
CountAfter(n, v) ==
    IF v \in {"ok", "bad"} /\ n < maxSuccessCount + 2 THEN n + 1 ELSE n

\* faulty variant: the test for a missing block comes after the delay
\* compensation of blockI
UpdateMissing_ShiftFirst(bI, bQ) ==
    /\ bI = NULL \/ bQ = NULL
    /\ inI' = bI
    /\ inQ' = bQ
    /\ txI' = NULL
    /\ txQ' = NULL
    /\ calls' = ReleaseOnly(bI, bQ)
    /\ verdict' = "skipped"
    /\ op' = "update"
    /\ savedSample' = IF bI # NULL /\ I2Scorrection = 1
                      THEN bI[n_block - 1] ELSE savedSample
    /\ detI' = NULL
    /\ detQ' = NULL
    /\ line' = << >>
    /\ noswap' = [noswap EXCEPT !.savedSample =
                      IF bI # NULL /\ noswap.I2Scorrection = 1
                      THEN bI[n_block - 1] ELSE noswap.savedSample]
    /\ UNCHANGED << I2Scorrection, autoDetectFlag, failureCount,
                    successCount, IQswap, ctl, prev, badRun, okRun,
                    sinceStart >>

UpdateMissing(bI, bQ) ==
    /\ bI = NULL \/ bQ = NULL
    /\ inI' = bI
    /\ inQ' = bQ
    /\ txI' = NULL
    /\ txQ' = NULL
    /\ calls' = ReleaseOnly(bI, bQ)
    /\ verdict' = "skipped"
    /\ op' = "update"
    /\ detI' = NULL
    /\ detQ' = NULL
    /\ line' = << >>
    /\ UNCHANGED << I2Scorrection, savedSample, autoDetectFlag,
                    failureCount, successCount, IQswap, ctl, prev, badRun,
                    okRun, sinceStart, noswap >>

\* the members that the correction and the detection work with
Members ==
    [I2Scorrection |-> I2Scorrection,
     savedSample |-> savedSample,
     autoDetectFlag |-> autoDetectFlag,
     failureCount |-> failureCount,
     successCount |-> successCount]

\* the detector result where the detector does not run
NoDetection ==
    [maxLine |-> 0, imageLine |-> 0, strong |-> FALSE, low |-> FALSE]

\* update() on the same blocks in the run that never sets IQswap.  The
\* transform is a function of the blocks: when the detector of this run
\* reads the blocks that the detector of the other run reads (detI, detQ,
\* with the result det), it finds what that one finds.
UpdateNoswap(bI, bQ, detI1, detQ1, det) ==
    LET c == Condition(FALSE, noswap.I2Scorrection, bI, bQ,
                       noswap.savedSample)
    IN  IF noswap.autoDetectFlag
        THEN \E det2 \in IF autoDetectFlag /\ c.detI = detI1
                                             /\ c.detQ = detQ1
                          THEN {det}
                          ELSE Detections[Spectra(c.detI, c.detQ)] :
                LET m == StateMachine(noswap.I2Scorrection,
                                      noswap.failureCount,
                                      noswap.successCount, det2)
                IN  noswap' = [I2Scorrection |-> m.corr,
                               savedSample |-> c.saved,
                               autoDetectFlag |-> StillDetecting(m.sc),
                               failureCount |-> m.fc,
                               successCount |-> m.sc]
        ELSE noswap' = [noswap EXCEPT !.savedSample = c.saved]

\* faulty variant: the detection comes first, on the blocks as received, and
\* the delay compensation follows with the correction the detection left
UpdatePair_DetectFirst(bI, bQ) ==
    /\ bI # NULL /\ bQ # NULL
    /\ \/ /\ autoDetectFlag
          /\ \E det \in Detections[Spectra(bI, bQ)] :
                LET m == StateMachine(I2Scorrection, failureCount,
                                      successCount, det)
                IN  /\ I2Scorrection' = m.corr
                    /\ failureCount' = m.fc
                    /\ successCount' = m.sc
                    /\ autoDetectFlag' = StillDetecting(m.sc)
                    /\ verdict' = Verdict(det)
                    /\ badRun' = RunAfter(badRun, Verdict(det))
                    /\ okRun' = OkAfter(okRun, Verdict(det))
                    /\ sinceStart' = CountAfter(sinceStart, Verdict(det))
                    /\ line' = << det.maxLine, det.imageLine >>
                    /\ detI' = bI
                    /\ detQ' = bQ
       \/ /\ ~autoDetectFlag
          /\ verdict' = "off"
          /\ line' = << >>
          /\ detI' = NULL
          /\ detQ' = NULL
          /\ UNCHANGED << I2Scorrection, failureCount, successCount,
                          autoDetectFlag, badRun, okRun, sinceStart >>
    /\ LET d == DelayCompensate(I2Scorrection', bI, bQ, savedSample)
           s == SwapIQ(IQswap, d.I, d.Q)
       IN  /\ savedSample' = d.saved
           /\ txI' = s.I
           /\ txQ' = s.Q
    /\ noswap' = [I2Scorrection |-> I2Scorrection',
                  savedSample |-> savedSample',
                  autoDetectFlag |-> autoDetectFlag',
                  failureCount |-> failureCount',
                  successCount |-> successCount']
    /\ inI' = bI
    /\ inQ' = bQ
    /\ calls' = TransmitAndRelease
    /\ op' = "update"
    /\ prev' = [corr |-> I2Scorrection,
                I |-> bI[n_block - 1],
                Q |-> bQ[n_block - 1]]
    /\ UNCHANGED << IQswap, ctl >>

UpdatePair(bI, bQ) ==
    /\ bI # NULL /\ bQ # NULL
    /\ LET c == Condition(IQswap, I2Scorrection, bI, bQ, savedSample)
       IN  /\ savedSample' = c.saved
           /\ \/ /\ autoDetectFlag
                 /\ \E det \in Detections[Spectra(c.detI, c.detQ)] :
                       LET m == StateMachine(I2Scorrection, failureCount,
                                             successCount, det)
                       IN  /\ I2Scorrection' = m.corr
                           /\ failureCount' = m.fc
                           /\ successCount' = m.sc
                           /\ autoDetectFlag' = StillDetecting(m.sc)
                           /\ verdict' = Verdict(det)
                           /\ badRun' = RunAfter(badRun, Verdict(det))
                           /\ okRun' = OkAfter(okRun, Verdict(det))
                           /\ sinceStart' = CountAfter(sinceStart, Verdict(det))
                           /\ line' = << det.maxLine, det.imageLine >>
                           /\ detI' = c.detI
                           /\ detQ' = c.detQ
                           /\ UpdateNoswap(bI, bQ, c.detI, c.detQ, det)
              \/ /\ ~autoDetectFlag
                 /\ verdict' = "off"
                 /\ line' = << >>
                 /\ detI' = NULL
                 /\ detQ' = NULL
                 /\ UNCHANGED << I2Scorrection, failureCount, successCount,
                                 autoDetectFlag, badRun, okRun, sinceStart >>
                 /\ UpdateNoswap(bI, bQ, c.detI, c.detQ, NoDetection)
           /\ txI' = c.I
           /\ txQ' = c.Q
    /\ inI' = bI
    /\ inQ' = bQ
    /\ calls' = TransmitAndRelease
    /\ op' = "update"
    /\ prev' = [corr |-> I2Scorrection,
                I |-> bI[n_block - 1],
                Q |-> bQ[n_block - 1]]
    /\ UNCHANGED << IQswap, ctl >>

update ==
    \E bI \in InputsI, bQ \in InputsQ :
        UpdateMissing(bI, bQ) \/ UpdatePair(bI, bQ)

\* ------------------------------------------------------------------------
\* Public functions, lines 177-210

\* what only update() changes
Frame == << savedSample, inI, inQ, txI, txQ, calls, verdict, prev, detI,
           detQ, line >>

\* faulty variant: successCount is not reset
startAutoI2SerrorDetection_KeepsCount ==
    /\ autoDetectFlag' = TRUE
    /\ I2Scorrection' = 0
    /\ failureCount' = 0
    /\ op' = "start"
    /\ ctl' = [f |-> "start", arg |-> 0]
    /\ badRun' = 0
    /\ okRun' = 0
    /\ sinceStart' = 0
    /\ noswap' = [noswap EXCEPT !.autoDetectFlag = TRUE,
                                !.I2Scorrection = 0,
                                !.failureCount = 0]
    /\ UNCHANGED << Frame, IQswap, successCount >>

startAutoI2SerrorDetection ==
    /\ autoDetectFlag' = TRUE
    /\ I2Scorrection' = 0
    /\ failureCount' = 0
    /\ successCount' = 0
    /\ op' = "start"
    /\ ctl' = [f |-> "start", arg |-> 0]
    /\ badRun' = 0
    /\ okRun' = 0
    /\ sinceStart' = 0
    /\ noswap' = [noswap EXCEPT !.autoDetectFlag = TRUE,
                                !.I2Scorrection = 0,
                                !.failureCount = 0,
                                !.successCount = 0]
    /\ UNCHANGED << Frame, IQswap >>

stopAutoI2SerrorDetection ==
    /\ autoDetectFlag' = FALSE
    /\ I2Scorrection' = 0
    /\ op' = "stop"
    /\ ctl' = [f |-> "stop", arg |-> 0]
    /\ noswap' = [noswap EXCEPT !.autoDetectFlag = FALSE,
                                !.I2Scorrection = 0]
    /\ UNCHANGED << Frame, IQswap, failureCount, successCount, badRun,
                    okRun, sinceStart >>

\* faulty variant: the detection is left running
setI2SerrorCompensation_KeepsDetecting(correction) ==
    /\ I2Scorrection' = correction
    /\ op' = "set"
    /\ ctl' = [f |-> "set", arg |-> correction]
    /\ noswap' = [noswap EXCEPT !.I2Scorrection = correction]
    /\ UNCHANGED << Frame, IQswap, failureCount, successCount, badRun,
                    okRun, sinceStart, autoDetectFlag >>

setI2SerrorCompensation(correction) ==
    /\ I2Scorrection' = correction
    /\ autoDetectFlag' = FALSE
    /\ op' = "set"
    /\ ctl' = [f |-> "set", arg |-> correction]
    /\ noswap' = [noswap EXCEPT !.I2Scorrection = correction,
                                !.autoDetectFlag = FALSE]
    /\ UNCHANGED << Frame, IQswap, failureCount, successCount, badRun,
                    okRun, sinceStart >>

swapIQ(swap) ==
    /\ IQswap' = swap
    /\ op' = "swap"
    /\ UNCHANGED << Frame, I2Scorrection, autoDetectFlag, failureCount,
                    successCount, ctl, badRun, okRun, sinceStart, noswap >>

\* ------------------------------------------------------------------------

\* the object after construction: detection active, no correction, no swap
Init ==
    /\ I2Scorrection = 0
    /\ savedSample = 0
    /\ autoDetectFlag = TRUE
    /\ failureCount = 0
    /\ successCount = 0
    /\ IQswap = FALSE
    /\ inI = NULL
    /\ inQ = NULL
    /\ txI = NULL
    /\ txQ = NULL
    /\ calls = << >>
    /\ verdict = "skipped"
    /\ op = "init"
    /\ ctl = [f |-> "init", arg |-> 0]
    /\ prev = [corr |-> 0, I |-> 0, Q |-> 0]
    /\ badRun = 0
    /\ okRun = 0
    /\ sinceStart = 0
    /\ detI = NULL
    /\ detQ = NULL
    /\ line = << >>
    /\ noswap = Members

Next ==
    \/ update
    \/ startAutoI2SerrorDetection
    \/ stopAutoI2SerrorDetection
    \/ \E c \in Corrections : setI2SerrorCompensation(c)
    \/ \E b \in BOOLEAN : swapIQ(b)

Spec == Init /\ [][Next]_vars

\* ------------------------------------------------------------------------
\* Properties

\* the last update() had both blocks and ran to the end
Processed == op = "update" /\ verdict # "skipped"

\* the step is an update() that has both blocks
ProcessedStep == op' = "update" /\ verdict' # "skipped"

\* the correction that follows c in the cycle -1 -> 0 -> 1 -> -1
Cycle(c) == IF c = 1 THEN -1 ELSE c + 1

CountCalls(f, b) ==
    Cardinality({k \in DOMAIN calls : calls[k] = << f, b >>})

\* C1: in an update() that starts with I2Scorrection = 1 the I data leave
\* (on output 0, on output 1 when swapped) shifted up by one index; when the
\* update() with both blocks before it also started with I2Scorrection = 1,
\* the first sample is the last incoming I sample of that update(); the last
\* incoming sample is kept for the next block, so the I stream is delayed by
\* one sample and no sample is lost or doubled at a block boundary.
C1_DelayICarry ==
    [][ (ProcessedStep /\ I2Scorrection = 1) =>
            LET out == IF IQswap THEN txQ' ELSE txI'
            IN  /\ \A i \in 1 .. (n_block - 1) : out[i] = inI'[i - 1]
                /\ prev.corr = 1 => out[0] = prev.I
                /\ savedSample' = inI'[n_block - 1] ]_vars

C1_Witness ==
    /\ Processed
    /\ prev.corr = 1
    /\ ~IQswap
    /\ inI = ZeroBlock
    /\ txI = [i \in Index |-> IF i = 0 THEN n_block ELSE 0]

\* C2: in an update() that starts with I2Scorrection = -1 the Q data leave
\* shifted up by one index with the carried sample in Q[0], the last
\* incoming Q sample is kept, and the I data leave as they came.
C2_DelayQMirror ==
    [][ (ProcessedStep /\ I2Scorrection = -1) =>
            LET outQ == IF IQswap THEN txI' ELSE txQ'
                outI == IF IQswap THEN txQ' ELSE txI'
            IN  /\ \A i \in 1 .. (n_block - 1) : outQ[i] = inQ'[i - 1]
                /\ outQ[0] = savedSample
                /\ savedSample' = inQ'[n_block - 1]
                /\ outI = inI' ]_vars

\* C3: an update() changes I2Scorrection exactly when its verdict is the
\* (maxFailureCount + 1)-th unacceptable verdict in a row, and then to the
\* next correction of the cycle -1 -> 0 -> 1 -> -1.
C3_ModeCycling ==
    [][ op' = "update" =>
            /\ (I2Scorrection' # I2Scorrection)
                   <=> (verdict' = "bad" /\ badRun' = 0)
            /\ (I2Scorrection' # I2Scorrection)
                   => I2Scorrection' = Cycle(I2Scorrection) ]_vars

C3_Witness ==
    /\ op = "update"
    /\ verdict = "bad"
    /\ badRun = 0
    /\ I2Scorrection = -1
    /\ autoDetectFlag

\* C4: after an update() that advanced I2Scorrection both counters are 0.
C4_AdvanceResetsBoth ==
    [][ (op' = "update" /\ I2Scorrection' # I2Scorrection) =>
            (failureCount' = 0 /\ successCount' = 0) ]_vars

\* C5: an update() with an unacceptable verdict increments failureCount by
\* one and resets successCount to 0.
C5_UnacceptableVerdict ==
    [][ (op' = "update" /\ verdict' = "bad") =>
            (failureCount' = failureCount + 1 /\ successCount' = 0) ]_vars

\* C6: successCount above maxSuccessCount goes with detection switched off,
\* and an update() with detection off changes neither the flag nor the
\* correction nor the counters.
C6_Freeze ==
    [][ /\ successCount' > maxSuccessCount => ~autoDetectFlag'
        /\ (op' = "update" /\ ~autoDetectFlag) =>
               UNCHANGED << autoDetectFlag, I2Scorrection, failureCount,
                            successCount >> ]_vars

C6_Witness ==
    /\ Processed
    /\ verdict = "off"
    /\ ctl.f # "set" /\ ctl.f # "stop"
    /\ successCount > maxSuccessCount
    /\ ~autoDetectFlag

\* C7: a received block is released exactly once and never transmitted
\* after its release; both blocks are transmitted once when both arrived
\* and nothing is transmitted otherwise; a block that did not arrive is
\* neither transmitted nor released.
C7_ReleaseOnce ==
    LET got == [b \in {"I", "Q"} |-> IF b = "I" THEN inI # NULL ELSE inQ # NULL]
        both == got["I"] /\ got["Q"]
    IN  /\ \A b \in {"I", "Q"} :
              /\ CountCalls("release", b) = IF got[b] THEN 1 ELSE 0
              /\ CountCalls("transmit", b) = IF both THEN 1 ELSE 0
              /\ \A j, k \in DOMAIN calls :
                     (calls[j] = << "release", b >>
                          /\ calls[k] = << "transmit", b >>) => k < j
        /\ (txI # NULL) <=> both
        /\ (txQ # NULL) <=> both

C7_Witness ==
    /\ op = "update"
    /\ inI # NULL
    /\ inQ = NULL
    /\ calls = << << "release", "I" >> >>

\* C8: an update() with a block missing changes none of I2Scorrection,
\* savedSample, the counters, autoDetectFlag and IQswap and transmits
\* nothing.
C8_SkippedTick ==
    [][ (op' = "update" /\ (inI' = NULL \/ inQ' = NULL)) =>
            /\ UNCHANGED << I2Scorrection, savedSample, failureCount,
                            successCount, autoDetectFlag, IQswap >>
            /\ txI' = NULL /\ txQ' = NULL
            /\ \A k \in DOMAIN calls' : calls'[k][1] # "transmit" ]_vars

C8_Witness ==
    /\ op = "update"
    /\ verdict = "skipped"
    /\ inI = RampI
    /\ inQ = NULL
    /\ I2Scorrection = 1
    /\ savedSample = n_block
    /\ prev.corr = 1

\* C9: from setI2SerrorCompensation(c) until the next call of start, stop or
\* set, over any number of update() calls, detection is off and
\* I2Scorrection is c.
C9_ManualOverride ==
    ctl.f = "set" => (I2Scorrection = ctl.arg /\ ~autoDetectFlag)

C9_Witness ==
    /\ ctl = [f |-> "set", arg |-> -1]
    /\ Processed
    /\ I2Scorrection = -1
    /\ failureCount > 0
    /\ successCount > 0

\* C10: an update() in which the strongest line fails the test of line 131
\* changes neither the correction nor the counters nor the flag, and with
\* detection active two all-zero blocks always fail that test.
C10_WeakSignal ==
    [][ /\ (op' = "update" /\ verdict' = "none") =>
               UNCHANGED << I2Scorrection, failureCount, successCount,
                            autoDetectFlag >>
        /\ (op' = "update" /\ autoDetectFlag
                /\ inI' = ZeroBlock /\ inQ' = ZeroBlock) =>
               (verdict' = "none" /\ I2Scorrection' = I2Scorrection) ]_vars

C10_Witness ==
    /\ op = "update"
    /\ verdict = "none"
    /\ autoDetectFlag
    /\ inI = ZeroBlock /\ inQ = ZeroBlock
    /\ failureCount > 0
    /\ I2Scorrection = 1

\* C11: startAutoI2SerrorDetection leaves detection active, both counters 0
\* and no correction; stopAutoI2SerrorDetection leaves detection off and no
\* correction; and an update() switches detection off only when at least
\* maxSuccessCount + 1 verdicts were given since the last start.
C11_StartStop ==
    [][ /\ op' = "start" =>
               /\ autoDetectFlag'
               /\ failureCount' = 0
               /\ successCount' = 0
               /\ I2Scorrection' = 0
        /\ op' = "stop" => (~autoDetectFlag' /\ I2Scorrection' = 0)
        /\ (op' = "update" /\ autoDetectFlag /\ ~autoDetectFlag') =>
               sinceStart' >= maxSuccessCount + 1 ]_vars

C11_Witness ==
    /\ ctl.f = "start"
    /\ Processed
    /\ ~autoDetectFlag
    /\ sinceStart = maxSuccessCount + 1
    /\ prev.corr = 0

\* C12: an update() that starts with I2Scorrection = 0 leaves savedSample
\* unchanged, hands both blocks to the detector as they were received and
\* transmits them as they were received (exchanged when IQswap is set).
C12_NoCorrection ==
    [][ (ProcessedStep /\ I2Scorrection = 0) =>
            /\ savedSample' = savedSample
            /\ verdict' # "off" => (detI' = inI' /\ detQ' = inQ')
            /\ IF IQswap
               THEN txI' = inQ' /\ txQ' = inI'
               ELSE txI' = inI' /\ txQ' = inQ' ]_vars

C12_Witness ==
    /\ Processed
    /\ prev.corr = 0
    /\ savedSample = n_block
    /\ inI = RampI
    /\ inQ = RampQ
    /\ detI = RampI
    /\ txI = RampI

\* C13: the exchange of lines 161-166 applied to a transmitted block pair
\* gives the Q block as I block and the I block as Q block, applied twice it
\* gives the pair back sample for sample; and with IQswap set the block
\* transmitted on 0 is the Q block the detector read, the block transmitted
\* on 1 the I block it read.
C13_SwapInvolution ==
    Processed =>
        LET once == SwapIQ(TRUE, txI, txQ)
            twice == SwapIQ(TRUE, once.I, once.Q)
        IN  /\ once.I = txQ /\ once.Q = txI
            /\ twice.I = txI /\ twice.Q = txQ
            /\ (IQswap /\ verdict # "off") => (txI = detQ /\ txQ = detI)

C13_Witness ==
    /\ Processed
    /\ IQswap
    /\ verdict # "off"
    /\ detI = RampI
    /\ detQ = RampQ
    /\ txI = RampQ
    /\ txQ = RampI

\* C14: when only update() has changed the correction since detection was
\* started, an update() that starts with a correction other than 0, after an
\* update() with both blocks that also started with one, finds in
\* savedSample the last incoming sample, in that earlier update(), of the
\* channel it delays now (I for 1, Q for -1).
C14_CarryOfDelayedChannel ==
    [][ ( /\ ProcessedStep
          /\ ctl.f \in {"init", "start"}
          /\ I2Scorrection # 0
          /\ prev.corr # 0 ) =>
            savedSample = IF I2Scorrection = 1 THEN prev.I ELSE prev.Q ]_vars

\* C15: an update() that clears autoDetectFlag comes after at least
\* maxSuccessCount + 1 acceptable verdicts in a row with no unacceptable
\* verdict among them.
C15_FreezeAfterSuccess ==
    [][ (op' = "update" /\ autoDetectFlag /\ ~autoDetectFlag') =>
            okRun' >= maxSuccessCount + 1 ]_vars

\* C16: as long as every verdict since the construction or the last start
\* was acceptable (and neither stop nor set was called), failureCount is 0,
\* I2Scorrection is still 0, successCount is the number of these verdicts,
\* and autoDetectFlag is set exactly up to the maxSuccessCount-th of them:
\* the update() with the (maxSuccessCount + 1)-th acceptable verdict is the
\* one that clears it.
C16_SteadySuccessFreezes ==
    (ctl.f \in {"init", "start"} /\ okRun = sinceStart) =>
        /\ failureCount = 0
        /\ I2Scorrection = 0
        /\ successCount = okRun
        /\ autoDetectFlag <=> (okRun <= maxSuccessCount)

C16_Witness ==
    /\ Processed
    /\ ctl.f = "start"
    /\ verdict = "ok"
    /\ okRun = maxSuccessCount + 1
    /\ sinceStart = okRun
    /\ ~autoDetectFlag
    /\ failureCount = 0
    /\ I2Scorrection = 0

\* C17: whenever the detector has run, maxLine lies in the range of the loop
\* of line 116, min .. n_FFT - min - 1, and the index n_FFT - maxLine of
\* line 129 lies in the power spectrum, 0 .. n_FFT - 1; stated for the
\* blocks whose spectrum is known exactly, the all-zero blocks, whose
\* spectrum is zero in every line.
C17_IndicesInRange ==
    (line # << >> /\ detI = ZeroBlock /\ detQ = ZeroBlock) =>
        /\ line[1] \in min .. (n_FFT - min - 1)
        /\ line[2] \in 0 .. (n_FFT - 1)

\* C18: an update() with both blocks delays the channel that the value of
\* I2Scorrection at its start selects, also when it changes I2Scorrection
\* itself: with 0 the blocks leave as they came, with 1 the I samples move
\* up by one index behind savedSample and the Q block is untouched, with -1
\* the Q samples move up by one index and the I samples above index 0 stay
\* in place.  The detector reads these blocks, and they are the blocks
\* that are transmitted: a block is compensated once.
C18_ModeAtStartOfTick ==
    [][ ProcessedStep =>
            LET outI == IF IQswap THEN txQ' ELSE txI'
                outQ == IF IQswap THEN txI' ELSE txQ'
                Upper == 1 .. (n_block - 1)
            IN  /\ I2Scorrection = 0 => (outI = inI' /\ outQ = inQ')
                /\ I2Scorrection = 1 =>
                       /\ \A i \in Upper : outI[i] = inI'[i - 1]
                       /\ outI[0] = savedSample
                       /\ outQ = inQ'
                /\ I2Scorrection = -1 =>
                       /\ \A i \in Upper : outQ[i] = inQ'[i - 1]
                       /\ \A i \in Upper : outI[i] = inI'[i]
                /\ verdict' # "off" => (detI' = outI /\ detQ' = outQ) ]_vars

\* the update() that advances the correction from 0 to 1 leaves the I block
\* unshifted
C18_Witness ==
    /\ Processed
    /\ prev.corr = 0
    /\ I2Scorrection = 1
    /\ verdict = "bad"
    /\ ~IQswap
    /\ inI = RampI
    /\ detI = RampI
    /\ txI = RampI
    /\ txQ = inQ

\* C20: between the calls I2Scorrection is -1, 0 or 1; while autoDetectFlag
\* is set failureCount is at most maxFailureCount and successCount at most
\* maxSuccessCount; and at any time the counters are not negative and at
\* most one above their thresholds.
C20_Ranges ==
    /\ I2Scorrection \in Corrections
    /\ autoDetectFlag =>
           /\ failureCount \in 0 .. maxFailureCount
           /\ successCount \in 0 .. maxSuccessCount
    /\ failureCount \in 0 .. (maxFailureCount + 1)
    /\ successCount \in 0 .. (maxSuccessCount + 1)

\* the update() that takes I2Scorrection from 1 round to -1
C20_Witness ==
    /\ Processed
    /\ ctl.f = "init"
    /\ prev.corr = 1
    /\ I2Scorrection = -1
    /\ autoDetectFlag
    /\ failureCount = 0
    /\ successCount = 1

\* C19: after every step I2Scorrection, savedSample, autoDetectFlag,
\* failureCount and successCount have the values they have in the run with
\* the same blocks and the same calls of start, stop and set that never
\* sets IQswap (so any two runs that differ in IQswap only agree on them);
\* swapIQ changes none of them; and the swap comes after the detector: with
\* IQswap set the blocks transmitted on 0 and 1 are the Q and the I block
\* the detector read, without it the I and the Q block.
C19_SwapIndependence ==
    [][ /\ noswap' = [I2Scorrection |-> I2Scorrection',
                      savedSample |-> savedSample',
                      autoDetectFlag |-> autoDetectFlag',
                      failureCount |-> failureCount',
                      successCount |-> successCount']
        /\ op' = "swap" =>
               UNCHANGED << I2Scorrection, savedSample, autoDetectFlag,
                            failureCount, successCount >>
        /\ (ProcessedStep /\ verdict' # "off") =>
               IF IQswap THEN txI' = detQ' /\ txQ' = detI'
               ELSE txI' = detI' /\ txQ' = detQ' ]_vars

\* a swapped update() that delays I, carries a sample over and advances the
\* correction
C19_Witness ==
    /\ Processed
    /\ IQswap
    /\ prev.corr = 1
    /\ I2Scorrection = -1
    /\ inI = RampI
    /\ inQ = RampQ
    /\ savedSample = n_block
    /\ txI = RampQ
    /\ txQ # RampI
    /\ noswap = Members

=============================================================================
